---- MODULE Spec2Model ----
(***************************************************************************)
(* A model of deeph3/util.py: the binning scheme (get_*_bins,              *)
(* get_bin_values, bin_dist_angle_matrix, binned_mat_to_values), the       *)
(* geometry matrices (generate_dist_matrix, generate_*_dihedral,           *)
(* generate_ca_cb_cb_planar, protein_dist_angle_matrix), the probability   *)
(* routines (generate_probabilities, bin_matrix) and fill_diagonally_.     *)
(*                                                                         *)
(* Numbers.  The code computes in floating point; the model computes in    *)
(* exact arithmetic on integers that count a fixed fraction of the unit:   *)
(*   - a distance is counted in 1/DistScale Angstrom, so the bin width     *)
(*     0.5 and its half 0.25 are integers;                                 *)
(*   - an angle is counted in 1/AngleScale(num_bins) degree, so the bin    *)
(*     widths 360/num_bins and 180/num_bins and their halves are integers. *)
(* Every division of the code is then an exact integer division.           *)
(* The binning routines act cell by cell and channel by channel, so the    *)
(* 4xNxN matrix is modelled by one cell of one channel (mat_i).            *)
(***************************************************************************)
EXTENDS Integers, Sequences, FiniteSets, TLC

VARIABLES
    \* ---- binning: one cell of dist_angle_mat[mat_i] and what is made of it
    bpc,              \* "real" | "binned" | "values" | "rebinned" | "idle"
    num_bins,         \* the num_bins argument
    mat_i,            \* the channel: 0 dist, 1 omega, 2 theta, 3 phi
    dist_angle_cell,  \* the cell of the real matrix, in channel units
    binned_cell,      \* the cell of bin_dist_angle_matrix's result
    bin_values,       \* get_bin_values(bins) of the channel
    value_cell,       \* the cell of binned_mat_to_values's result
    rebinned_cell,    \* the cell of bin_dist_angle_matrix(value_mat)
    \* ---- geometry: protein_dist_angle_matrix and generate_dist_matrix
    gpc,              \* "parsed" | "stacked" | "dist" | "idle"
    residues,         \* the structure's residues, residue -> atom -> coordinate
    mask,             \* the mask argument: None or a 0/1 sequence
    output_matrix,    \* the stacked 4 x N x N matrix
    dist_mat,         \* the result of a direct generate_dist_matrix call
    \* ---- probabilities: bin_matrix and generate_probabilities
    ppc,              \* "call" | "done" | "idle"
    in_tensor,        \* the shape of the tensor argument
    are_logits,       \* bin_matrix's are_logits
    method,           \* bin_matrix's method
    routine,          \* which routine was called
    outcome,          \* what the call ended in: a returned shape or an error
    \* ---- fill_diagonally_
    fpc,              \* "call" | "done" | "idle"
    matrix,           \* the matrix argument, modified in place
    matrix0,          \* the matrix as it was handed in
    diagonal_index,   \* the diagonal_index argument
    fill_method,      \* the fill_method argument
    fill_value,       \* the fill_value argument
    raised            \* the exception the call ended in, or None

binVars  == <<bpc, num_bins, mat_i, dist_angle_cell, binned_cell, bin_values,
              value_cell, rebinned_cell>>
geomVars == <<gpc, residues, mask, output_matrix, dist_mat>>
probVars == <<ppc, in_tensor, are_logits, method, routine, outcome>>
fillVars == <<fpc, matrix, matrix0, diagonal_index, fill_method, fill_value,
              raised>>
vars     == <<binVars, geomVars, probVars, fillVars>>

None == "None"

\* num_bins ranges over MinBins..MaxBins.
MaxBins == 26

Min(a, b) == IF a < b THEN a ELSE b
Max(a, b) == IF a > b THEN a ELSE b

\* A Python list is a sequence; list[i] is At(list, i), list[-1] is Last(list).
At(list, i) == list[i + 1]
Last(list)  == list[Len(list)]
Lower(bin)  == bin[1]
Upper(bin)  == bin[2]

\* ================================================================ BinScheme
\* Units per Angstrom: 0.25 A, half the distance bin width, is 2 units.
DistScale == 8
\* Units per degree for a given num_bins.
AngleScale(n) == 4 * n
\* float('Inf'): above every value the model draws.
Inf == 1000000

get_dist_bins(n) ==
    LET first_bin == 4 * DistScale
        half      == DistScale \div 2          \* 0.5 Angstrom
        bins      == [i \in 1..(n - 2) |->
                        <<first_bin + half * (i - 1), first_bin + half + half * (i - 1)>>]
        appended  == Append(bins, <<Upper(Last(bins)), Inf>>)
    IN  <<(<<0, first_bin>>)>> \o appended

get_omega_bins(n) ==
    LET first_bin == (-180) * AngleScale(n)
        bin_width == (2 * 180 * AngleScale(n)) \div n
    IN  [i \in 1..n |-> <<first_bin + bin_width * (i - 1), first_bin + bin_width * i>>]

get_theta_bins(n) ==
    LET first_bin == (-180) * AngleScale(n)
        bin_width == (2 * 180 * AngleScale(n)) \div n
    IN  [i \in 1..n |-> <<first_bin + bin_width * (i - 1), first_bin + bin_width * i>>]

get_phi_bins(n) ==
    LET first_bin == 0
        bin_width == (180 * AngleScale(n)) \div n
    IN  [i \in 1..n |-> <<first_bin + bin_width * (i - 1), first_bin + bin_width * i>>]

\* The bin list bin_dist_angle_matrix and binned_mat_to_values use for channel c.
channel_bins(c, n) ==
    CASE c = 0 -> get_dist_bins(n)
      [] c = 1 -> get_omega_bins(n)
      [] c = 2 -> get_theta_bins(n)
      [] c = 3 -> get_phi_bins(n)

\* get_bin_values, as written without the override of the first value.
get_bin_values_no_override(bins) ==
    LET lowers    == [k \in 1..Len(bins) |-> Lower(bins[k])]
        bin_width == (At(lowers, 2) - At(lowers, 1)) \div 2
    IN  [k \in 1..Len(bins) |-> lowers[k] + bin_width]

\* get_bin_values, as written with the shift of a whole bin width in place
\* of the half width.
get_bin_values_shifted(bins) ==
    LET lowers    == [k \in 1..Len(bins) |-> Lower(bins[k])]
        bin_width == At(lowers, 2) - At(lowers, 1)
        shifted   == [k \in 1..Len(bins) |-> lowers[k] + bin_width]
    IN  [shifted EXCEPT ![1] = At(shifted, 1) - 2 * bin_width]

\* The local the code calls bin_width is HALF the distance between the lower
\* bounds of bins 1 and 2.
get_bin_values(bins) ==
    LET lowers    == [k \in 1..Len(bins) |-> Lower(bins[k])]
        bin_width == (At(lowers, 2) - At(lowers, 1)) \div 2
        shifted   == [k \in 1..Len(bins) |-> lowers[k] + bin_width]
    IN  [shifted EXCEPT ![1] = At(shifted, 1) - 2 * bin_width]

\* One channel's loop of bin_dist_angle_matrix on one cell: binned starts at
\* torch.zeros' 0 and is overwritten by every bin i whose mask holds the cell.
RECURSIVE scan_bins(_, _, _, _)
scan_bins(v, bins, i, binned) ==
    IF i >= Len(bins) THEN binned
    ELSE LET bin_mask == v >= Lower(At(bins, i)) /\ v < Upper(At(bins, i))
         IN  scan_bins(v, bins, i + 1, IF bin_mask THEN i ELSE binned)

\* bin_dist_angle_matrix, as written with a strict lower comparison
\* (dist_angle_mat > lower_bound).
RECURSIVE scan_bins_strict(_, _, _, _)
scan_bins_strict(v, bins, i, binned) ==
    IF i >= Len(bins) THEN binned
    ELSE LET bin_mask == v > Lower(At(bins, i)) /\ v < Upper(At(bins, i))
         IN  scan_bins_strict(v, bins, i + 1, IF bin_mask THEN i ELSE binned)

bin_dist_angle_matrix_strict(c, v, n) == scan_bins_strict(v, channel_bins(c, n), 0, 0)

\* bin_dist_angle_matrix, as written with the output initialised to -1 (no
\* class) in place of torch.zeros.
bin_dist_angle_matrix_unset(c, v, n) == scan_bins(v, channel_bins(c, n), 0, -1)

bin_dist_angle_matrix(c, v, n) == scan_bins(v, channel_bins(c, n), 0, 0)

\* binned_mat_to_values on one cell of channel c.
binned_mat_to_values(c, b, n) == At(get_bin_values(channel_bins(c, n)), b)

\* mask_fill_value's default, -1, in the units of channel c.
mask_fill_value == -1
sentinel_cell(c, n) ==
    IF c = 0 THEN mask_fill_value * DistScale ELSE mask_fill_value * AngleScale(n)

\* The real values the model draws for channel c: around every bin boundary
\* (one unit and half a bin width to either side, so below and above the
\* nominal domain too), and the sentinel.
cell_samples(c, n) ==
    LET bins   == channel_bins(c, n)
        half   == (Lower(At(bins, 2)) - Lower(At(bins, 1))) \div 2
        bounds == {Lower(bins[k]) : k \in 1..Len(bins)}
                    \cup ({Upper(bins[k]) : k \in 1..Len(bins)} \ {Inf})
    IN  {b + d : b \in bounds, d \in {0 - half, -1, 0, 1, half}}
          \cup {sentinel_cell(c, n)}

bin_idle ==
    /\ bpc = "idle" /\ num_bins = 0 /\ mat_i = 0 /\ dist_angle_cell = 0
    /\ binned_cell = None /\ bin_values = <<>> /\ value_cell = None
    /\ rebinned_cell = None

MinBins == 3

InitBin ==
    /\ bpc = "real"
    /\ num_bins \in MinBins..MaxBins
    /\ mat_i \in 0..3
    /\ dist_angle_cell \in cell_samples(mat_i, num_bins)
    /\ binned_cell = None /\ bin_values = <<>> /\ value_cell = None
    /\ rebinned_cell = None

\* binned_mat = bin_dist_angle_matrix(dist_angle_mat, num_bins)
BinDistAngleMatrix ==
    /\ bpc = "real"
    /\ binned_cell' = bin_dist_angle_matrix(mat_i, dist_angle_cell, num_bins)
    /\ bpc' = "binned"
    /\ UNCHANGED <<num_bins, mat_i, dist_angle_cell, bin_values, value_cell,
                   rebinned_cell>>
    /\ UNCHANGED <<geomVars, probVars, fillVars>>

\* value_mat = binned_mat_to_values(binned_mat, num_bins)
BinnedMatToValues ==
    /\ bpc = "binned"
    /\ bin_values' = get_bin_values(channel_bins(mat_i, num_bins))
    /\ value_cell' = binned_mat_to_values(mat_i, binned_cell, num_bins)
    /\ bpc' = "values"
    /\ UNCHANGED <<num_bins, mat_i, dist_angle_cell, binned_cell, rebinned_cell>>
    /\ UNCHANGED <<geomVars, probVars, fillVars>>

\* bin_dist_angle_matrix(value_mat, num_bins)
RebinValues ==
    /\ bpc = "values"
    /\ rebinned_cell' = bin_dist_angle_matrix(mat_i, value_cell, num_bins)
    /\ bpc' = "rebinned"
    /\ UNCHANGED <<num_bins, mat_i, dist_angle_cell, binned_cell, bin_values,
                   value_cell>>
    /\ UNCHANGED <<geomVars, probVars, fillVars>>

NextBin ==
    \/ BinDistAngleMatrix
    \/ BinnedMatToValues
    \/ RebinValues

\* ====================================================== GeometryMatrixBuilder
\* Coordinates are integer triples.  A cell of a geometry matrix is a record
\* [kind, a, b, c] that keeps the value the code computes in closed form:
\*   Num(x)         the number x (the sentinel is Num(mask_fill_value));
\*   Norm(s)        sqrt(s), s the squared Euclidean norm;
\*   Atan2(y,x,s)   atan2(y / sqrt(s), x) in degrees;
\*   Acos(d,s,t)    acos(d / (sqrt(s) * sqrt(t))) in degrees;
\*   NaN            not-a-number (a 0/0 of the normalisations).
Num(x)         == [kind |-> "num",   a |-> x, b |-> 0, c |-> 0]
Norm(s)        == [kind |-> "norm",  a |-> s, b |-> 0, c |-> 0]
Atan2(y, x, s) == [kind |-> "atan2", a |-> y, b |-> x, c |-> s]
Acos(d, s, t)  == [kind |-> "acos",  a |-> d, b |-> s, c |-> t]
NaN            == [kind |-> "nan",   a |-> 0, b |-> 0, c |-> 0]

Zero3       == <<0, 0, 0>>
Sub(u, v)   == <<u[1] - v[1], u[2] - v[2], u[3] - v[3]>>
Scale(k, u) == <<k * u[1], k * u[2], k * u[3]>>
Dot(u, v)   == u[1] * v[1] + u[2] * v[2] + u[3] * v[3]
Cross(u, v) == <<u[2] * v[3] - u[3] * v[2],
                 u[3] * v[1] - u[1] * v[3],
                 u[1] * v[2] - u[2] * v[1]>>
NormSq(u)   == Dot(u, u)

\* t.expand((n, n, .)) of an n-list: the matrix whose every row is t.
expand(t) == [i \in 1..Len(t) |-> t]
transpose(m) == [i \in DOMAIN m |-> [j \in DOMAIN m |-> m[j][i]]]
mat_sub(m1, m2) == [i \in DOMAIN m1 |-> [j \in DOMAIN m1 |-> Sub(m1[i][j], m2[i][j])]]

\* m[sel] = fill_val, sel the matrix of booleans that selects the cells.
masked_fill(m, sel, fill_val) ==
    [i \in DOMAIN m |-> [j \in DOMAIN m |-> IF sel[i][j] THEN fill_val ELSE m[i][j]]]

\* generate_dist_matrix with col_expand never subtracted: the norm of
\* row_expand alone.
generate_dist_matrix_nosub(coords, mask_, fill_val) ==
    LET n          == Len(coords)
        row_expand == transpose(expand(coords))
        dist       == [i \in 1..n |-> [j \in 1..n |-> Norm(NormSq(row_expand[i][j]))]]
    IN  IF mask_ = <<>> THEN dist
        ELSE LET not_mask == [k \in 1..n |-> 1 - mask_[k]]
                 summed   == [i \in 1..n |-> [j \in 1..n |-> not_mask[i] + not_mask[j]]]
             IN  masked_fill(dist,
                             [i \in 1..n |-> [j \in 1..n |-> summed[i][j] > 0]],
                             fill_val)

\* generate_dist_matrix with the mask of the row alone: not_mask is expanded
\* but the original vector is never added to each row.
generate_dist_matrix_rowmask(coords, mask_, fill_val) ==
    LET n          == Len(coords)
        row_expand == transpose(expand(coords))
        col_expand == expand(coords)
        diff       == mat_sub(row_expand, col_expand)
        dist       == [i \in 1..n |-> [j \in 1..n |-> Norm(NormSq(diff[i][j]))]]
    IN  IF mask_ = <<>> THEN dist
        ELSE LET not_mask == [k \in 1..n |-> 1 - mask_[k]]
                 summed   == [i \in 1..n |-> [j \in 1..n |-> not_mask[i]]]
             IN  masked_fill(dist,
                             [i \in 1..n |-> [j \in 1..n |-> summed[i][j] > 0]],
                             fill_val)

\* generate_dist_matrix(coords, mask, mask_fill_value); mask None is <<>>.
generate_dist_matrix(coords, mask_, fill_val) ==
    LET n          == Len(coords)
        row_expand == transpose(expand(coords))
        col_expand == expand(coords)
        diff       == mat_sub(row_expand, col_expand)
        dist       == [i \in 1..n |-> [j \in 1..n |-> Norm(NormSq(diff[i][j]))]]
    IN  IF mask_ = <<>> THEN dist
        ELSE LET not_mask == [k \in 1..n |-> 1 - mask_[k]]
                 summed   == [i \in 1..n |-> [j \in 1..n |-> not_mask[i] + not_mask[j]]]
             IN  masked_fill(dist,
                             [i \in 1..n |-> [j \in 1..n |-> summed[i][j] > 0]],
                             fill_val)

\* The four-point dihedral of one cell: n1 and n2 are divided by their norms
\* and b2 by its norm, a 0/0 (NaN) when a norm is zero; atan2 of
\* (m1 . n2, n1 . n2) is the angle of ((b2 x n1) . n2 / |b2|, n1 . n2).
dihedral_cell(b1, b2, b3) ==
    LET n1 == Cross(b1, b2)
        n2 == Cross(b2, b3)
    IN  IF NormSq(n1) = 0 \/ NormSq(n2) = 0 \/ NormSq(b2) = 0 THEN NaN
        ELSE Atan2(Dot(Cross(b2, n1), n2), Dot(n1, n2), NormSq(b2))

\* mask.expand((n, n)) & its transpose, then the cells where it is 0.
pair_invalid(mask_) ==
    LET expanded == expand(mask_)
        both     == [i \in 1..Len(mask_) |-> [j \in 1..Len(mask_) |->
                        expanded[i][j] * transpose(expanded)[i][j]]]
    IN  [i \in 1..Len(mask_) |-> [j \in 1..Len(mask_) |-> both[i][j] = 0]]

generate_cb_cb_dihedral(ca_coords, cb_coords, mask_, fill_val) ==
    LET n   == Len(ca_coords)
        b1  == expand([k \in 1..n |-> Sub(cb_coords[k], ca_coords[k])])
        b2x == expand(cb_coords)
        b2  == mat_sub(transpose(b2x), b2x)
        b3  == [i \in 1..n |-> [j \in 1..n |-> Scale(-1, transpose(b1)[i][j])]]
        dihedral_mat == [i \in 1..n |-> [j \in 1..n |->
                            dihedral_cell(b1[i][j], b2[i][j], b3[i][j])]]
    IN  masked_fill(dihedral_mat, pair_invalid(mask_), fill_val)

generate_ca_cb_dihedral(ca_coords, cb_coords, n_coords, mask_, fill_val) ==
    LET n   == Len(ca_coords)
        b1  == expand([k \in 1..n |-> Sub(ca_coords[k], n_coords[k])])
        b2  == expand([k \in 1..n |-> Sub(cb_coords[k], ca_coords[k])])
        b3x == expand(cb_coords)
        b3  == mat_sub(transpose(b3x), b3x)
        dihedral_mat == transpose([i \in 1..n |-> [j \in 1..n |->
                            dihedral_cell(b1[i][j], b2[i][j], b3[i][j])]])
    IN  masked_fill(dihedral_mat, pair_invalid(mask_), fill_val)

\* acos(v1 . v2 / (|v1| |v2|)): a 0/0 (NaN) when a norm is zero.
planar_cell(v1, v2) ==
    IF NormSq(v1) = 0 \/ NormSq(v2) = 0 THEN NaN
    ELSE Acos(Dot(v1, v2), NormSq(v1), NormSq(v2))

generate_ca_cb_cb_planar(ca_coords, cb_coords, mask_, fill_val) ==
    LET n   == Len(ca_coords)
        v1  == expand([k \in 1..n |-> Sub(ca_coords[k], cb_coords[k])])
        v2x == expand(cb_coords)
        v2  == mat_sub(transpose(v2x), v2x)
        planar_mat == transpose([i \in 1..n |-> [j \in 1..n |->
                          planar_cell(v1[i][j], v2[i][j])]])
    IN  masked_fill(planar_mat, pair_invalid(mask_), fill_val)

\* An atom a residue does not have.
NoAtom == <<>>

get_cb_or_ca_coord(residue) ==
    IF residue.CB # NoAtom THEN residue.CB
    ELSE IF residue.CA # NoAtom THEN residue.CA
    ELSE Zero3

get_atom_coord(residue, atom_type) ==
    IF residue[atom_type] # NoAtom THEN residue[atom_type] ELSE Zero3

\* mask & cb_mask on 0/1 bytes.
mask_and(m1, m2) == [k \in 1..Len(m1) |-> m1[k] * m2[k]]

\* protein_dist_angle_matrix, as written with every channel given the
\* sequence mask alone (cb_mask dropped).
protein_dist_angle_matrix_nocb(rs, mask_) ==
    LET n            == Len(rs)
        cb_ca_coords == [k \in 1..n |-> get_cb_or_ca_coord(rs[k])]
        ca_coords    == [k \in 1..n |-> get_atom_coord(rs[k], "CA")]
        cb_coords    == [k \in 1..n |-> get_atom_coord(rs[k], "CB")]
        n_coords     == [k \in 1..n |-> get_atom_coord(rs[k], "N")]
        m            == IF mask_ = <<>> THEN [k \in 1..n |-> 1] ELSE mask_
        fill         == Num(mask_fill_value)
    IN  <<generate_dist_matrix(cb_ca_coords, m, fill),
          generate_cb_cb_dihedral(ca_coords, cb_coords, m, fill),
          generate_ca_cb_dihedral(ca_coords, cb_coords, n_coords, m, fill),
          generate_ca_cb_cb_planar(ca_coords, cb_coords, m, fill)>>

\* The derived "has CB" mask: 1 iff the CB coordinates do not sum to 0.
cb_mask_of(cb_coords) ==
    [k \in 1..Len(cb_coords) |->
        IF cb_coords[k][1] + cb_coords[k][2] + cb_coords[k][3] # 0 THEN 1 ELSE 0]

\* protein_dist_angle_matrix(pdb_file, mask) on the parsed residues.
protein_dist_angle_matrix(rs, mask_) ==
    LET n            == Len(rs)
        cb_ca_coords == [k \in 1..n |-> get_cb_or_ca_coord(rs[k])]
        ca_coords    == [k \in 1..n |-> get_atom_coord(rs[k], "CA")]
        cb_coords    == [k \in 1..n |-> get_atom_coord(rs[k], "CB")]
        n_coords     == [k \in 1..n |-> get_atom_coord(rs[k], "N")]
        cb_mask      == cb_mask_of(cb_coords)
        m            == IF mask_ = <<>> THEN [k \in 1..n |-> 1] ELSE mask_
        fill         == Num(mask_fill_value)
    IN  <<generate_dist_matrix(cb_ca_coords, m, fill),
          generate_cb_cb_dihedral(ca_coords, cb_coords, mask_and(m, cb_mask), fill),
          generate_ca_cb_dihedral(ca_coords, cb_coords, n_coords,
                                  mask_and(m, cb_mask), fill),
          generate_ca_cb_cb_planar(ca_coords, cb_coords, mask_and(m, cb_mask), fill)>>

\* ---- the structures the model draws
\* At most MaxRes residues.
MaxRes == 2
ca_points == {NoAtom, <<1, 0, 0>>}
cb_points == {NoAtom, <<0, 1, 0>>, <<1, -1, 0>>, <<1, 0, 0>>}
n_points  == {<<0, 0, 1>>, <<0, 1, 1>>}
residue_kinds == [CA : ca_points, CB : cb_points, N : n_points]

RECURSIVE tuples_of(_, _)
tuples_of(S, n) ==
    IF n = 0 THEN {<<>>}
    ELSE {Append(t, x) : t \in tuples_of(S, n - 1), x \in S}

geom_idle ==
    /\ gpc = "idle" /\ residues = <<>> /\ mask = <<>>
    /\ output_matrix = <<>> /\ dist_mat = <<>>

InitGeom ==
    /\ gpc = "parsed"
    /\ \E n \in 1..MaxRes :
         /\ residues \in tuples_of(residue_kinds, n)
         /\ mask \in tuples_of({0, 1}, n) \cup {<<>>}
    /\ output_matrix = <<>>
    /\ dist_mat = <<>>

\* output_matrix = protein_dist_angle_matrix(pdb_file, mask)
ProteinDistAngleMatrix ==
    /\ gpc = "parsed"
    /\ output_matrix' = protein_dist_angle_matrix(residues, mask)
    /\ gpc' = "stacked"
    /\ UNCHANGED <<residues, mask, dist_mat>>
    /\ UNCHANGED <<binVars, probVars, fillVars>>

\* dist_mat = generate_dist_matrix(coords, mask), coords the CB-or-CA points
GenerateDistMatrix ==
    /\ gpc = "parsed"
    /\ dist_mat' = generate_dist_matrix(
                       [k \in 1..Len(residues) |-> get_cb_or_ca_coord(residues[k])],
                       mask, Num(mask_fill_value))
    /\ gpc' = "dist"
    /\ UNCHANGED <<residues, mask, output_matrix>>
    /\ UNCHANGED <<binVars, probVars, fillVars>>

NextGeom ==
    \/ ProteinDistAngleMatrix
    \/ GenerateDistMatrix

\* ======================================================= Probability transform
\* A tensor is modelled by its shape; what a call ends in is a record:
\* a returned tensor's shape, or the exception with what it complains about.
Returned(shape)   == [kind |-> "return", what |-> "", shape |-> shape]
Raised(exc, what) == [kind |-> exc, what |-> what, shape |-> <<>>]

\* shape after t.transpose(d0, d1), dimensions counted from 0.
transpose_dims(shape, d0, d1) ==
    [shape EXCEPT ![d0 + 1] = shape[d1 + 1], ![d1 + 1] = shape[d0 + 1]]

\* generate_probabilities with the rank check left out.
generate_probabilities_unchecked(logits) ==
    IF Len(logits) < 4 THEN Raised("IndexError", "dimension")
    ELSE Returned(transpose_dims(transpose_dims(logits, 1, 2), 2, 3))

generate_probabilities(logits) ==
    IF Len(logits) # 4 THEN Raised("ValueError", "shape")
    ELSE Returned(transpose_dims(transpose_dims(logits, 1, 2), 2, 3))

\* A reduction over the last dimension drops it (a 0-d tensor stays 0-d).
drop_last(shape) == IF Len(shape) = 0 THEN shape ELSE SubSeq(shape, 1, Len(shape) - 1)

\* bin_matrix with an unknown method falling back to 'max'.
bin_matrix_fallback(t, logits_flag, method_) ==
    LET probs == IF logits_flag THEN generate_probabilities(t) ELSE Returned(t)
    IN  IF probs.kind # "return" THEN probs
        ELSE IF method_ = "avg" THEN
            IF Len(probs.shape) = 0 THEN Raised("IndexError", "dimension")
            ELSE Returned(drop_last(probs.shape))
        ELSE Returned(drop_last(probs.shape))

bin_matrix(t, logits_flag, method_) ==
    LET probs == IF logits_flag THEN generate_probabilities(t) ELSE Returned(t)
    IN  IF probs.kind # "return" THEN probs
        ELSE IF method_ = "max" THEN Returned(drop_last(probs.shape))
        ELSE IF method_ = "avg" THEN
            \* probs.shape[-1] of a 0-d tensor
            IF Len(probs.shape) = 0 THEN Raised("IndexError", "dimension")
            ELSE Returned(drop_last(probs.shape))
        ELSE Raised("ValueError", "method")

\* Tensors of rank 0..MaxRank, every dimension of size 1..MaxDim.
MaxRank == 5
MaxDim == 2
method_names == {"max", "avg", "average", "min"}

prob_idle ==
    /\ ppc = "idle" /\ in_tensor = <<>> /\ are_logits = FALSE /\ method = ""
    /\ routine = "" /\ outcome = Returned(<<>>)

InitProb ==
    /\ ppc = "call"
    /\ \E r \in 0..MaxRank : in_tensor \in tuples_of(1..MaxDim, r)
    /\ are_logits \in BOOLEAN
    /\ method \in method_names
    /\ routine = ""
    /\ outcome = Returned(<<>>)

\* bin_matrix(in_tensor, are_logits, method)
BinMatrix ==
    /\ ppc = "call"
    /\ outcome' = bin_matrix(in_tensor, are_logits, method)
    /\ routine' = "bin_matrix"
    /\ ppc' = "done"
    /\ UNCHANGED <<in_tensor, are_logits, method>>
    /\ UNCHANGED <<binVars, geomVars, fillVars>>

\* generate_probabilities(in_tensor)
GenerateProbabilities ==
    /\ ppc = "call"
    /\ outcome' = generate_probabilities(in_tensor)
    /\ routine' = "generate_probabilities"
    /\ ppc' = "done"
    /\ UNCHANGED <<in_tensor, are_logits, method>>
    /\ UNCHANGED <<binVars, geomVars, fillVars>>

NextProb ==
    \/ BinMatrix
    \/ GenerateProbabilities

\* ============================================================ fill_diagonally_
\* A matrix is [rows, cols, cells], cells[i][j] for i in 0..rows-1 and
\* j in 0..cols-1.
new_matrix(r, c, v) ==
    [rows |-> r, cols |-> c, cells |-> [i \in 0..(r - 1) |-> [j \in 0..(c - 1) |-> v]]]

\* A slice bound k on a dimension of size len: negative bounds count from the
\* end, and the result is clamped to 0..len.
slice_bound(k, len) == IF k < 0 THEN Max(k + len, 0) ELSE Min(k, len)

\* matrix[i, left_bound:right_bound] = v
fill_slice(m, i, left_bound, right_bound, v) ==
    [m EXCEPT !.cells[i] =
        [j \in 0..(m.cols - 1) |->
            IF slice_bound(left_bound, m.cols) <= j /\ j < slice_bound(right_bound, m.cols)
            THEN v ELSE m.cells[i][j]]]

\* The loop over the rows, from row i on: what it leaves of the matrix and
\* the exception it ends in (None when it runs to its end).
RECURSIVE fill_rows(_, _, _, _, _)
fill_rows(m, d, v, method_, i) ==
    LET num_rows == m.rows
    IN  IF i >= num_rows THEN [matrix |-> m, raised |-> None]
        ELSE IF method_ = "below" THEN
            fill_rows(fill_slice(m, i, 0, Min(num_rows, Max(i - d + 1, 0)), v),
                      d, v, method_, i + 1)
        ELSE IF method_ = "above" THEN
            fill_rows(fill_slice(m, i, Min(num_rows, Max(i - d, 0)), num_rows, v),
                      d, v, method_, i + 1)
        ELSE IF method_ = "between" THEN
            fill_rows(fill_slice(m, i, Min(num_rows, Max(i - d, 0)),
                                 Min(num_rows, Min(i + d + 1, num_rows)), v),
                      d, v, method_, i + 1)
        ELSE [matrix |-> m, raised |-> "ValueError"]

\* fill_diagonally_(matrix, diagonal_index, fill_value, fill_method)
fill_diagonally_(m, d, v, method_) ==
    IF method_ = "symmetric" THEN
        LET ones    == new_matrix(m.rows, m.cols, 1)
            between == fill_rows(ones, d - 1, 0, "between", 0).matrix
        IN  [matrix |->
                [m EXCEPT !.cells =
                    [i \in 0..(m.rows - 1) |-> [j \in 0..(m.cols - 1) |->
                        IF between.cells[i][j] # 0 THEN v ELSE m.cells[i][j]]]],
             raised |-> None]
    ELSE fill_rows(m, d, v, method_, 0)

\* Matrices of 0..MaxRows rows and 0..MaxCols columns, diagonal_index in
\* -MaxDiag..MaxDiag.
MaxRows == 3
MaxCols == 3
MaxDiag == 2
fill_method_names == {"below", "above", "symmetric", "between", "diagonal", ""}

fill_idle ==
    /\ fpc = "idle" /\ matrix = new_matrix(0, 0, 1) /\ matrix0 = new_matrix(0, 0, 1)
    /\ diagonal_index = 0 /\ fill_method = "" /\ fill_value = 0 /\ raised = None

InitFill ==
    /\ fpc = "call"
    /\ \E r \in 0..MaxRows, c \in 0..MaxCols : matrix = new_matrix(r, c, 1)
    /\ matrix0 = matrix
    /\ diagonal_index \in (0 - MaxDiag)..MaxDiag
    /\ fill_method \in fill_method_names
    /\ fill_value = 0
    /\ raised = None

\* fill_diagonally_(matrix, diagonal_index, fill_value, fill_method)
FillDiagonally ==
    /\ fpc = "call"
    /\ LET r == fill_diagonally_(matrix, diagonal_index, fill_value, fill_method)
       IN  /\ matrix' = r.matrix
           /\ raised' = r.raised
    /\ fpc' = "done"
    /\ UNCHANGED <<matrix0, diagonal_index, fill_method, fill_value>>
    /\ UNCHANGED <<binVars, geomVars, probVars>>

NextFill ==
    \/ FillDiagonally

\* ============================================================== specifications
InitBinSpec  == InitBin /\ geom_idle /\ prob_idle /\ fill_idle
InitGeomSpec == InitGeom /\ bin_idle /\ prob_idle /\ fill_idle
InitProbSpec == InitProb /\ bin_idle /\ geom_idle /\ fill_idle
InitFillSpec == InitFill /\ bin_idle /\ geom_idle /\ prob_idle

SpecBin  == InitBinSpec /\ [][NextBin]_vars
SpecGeom == InitGeomSpec /\ [][NextGeom]_vars
SpecProb == InitProbSpec /\ [][NextProb]_vars
SpecFill == InitFillSpec /\ [][NextFill]_vars

\* ===================================================================== claims
\* ---- helpers of the claims
\* The nominal domain of channel c (spec, Testable Properties 1).
in_domain(c, v, n) ==
    CASE c = 0 -> v >= 0
      [] c \in {1, 2} -> (-180) * AngleScale(n) <= v /\ v < 180 * AngleScale(n)
      [] c = 3 -> 0 <= v /\ v < 180 * AngleScale(n)
\* The ends of the nominal domain of channel c.
domain_low(c, n)  == IF c \in {1, 2} THEN (-180) * AngleScale(n) ELSE 0
domain_high(c, n) == IF c = 0 THEN Inf ELSE 180 * AngleScale(n)
\* The indices (from 0) of the bins that hold v.
matching_bins(bins, v) ==
    {i \in 0..(Len(bins) - 1) : Lower(At(bins, i)) <= v /\ v < Upper(At(bins, i))}
strictly_inside(bins, v) ==
    \E i \in 0..(Len(bins) - 1) : Lower(At(bins, i)) < v /\ v < Upper(At(bins, i))
cur_bins == channel_bins(mat_i, num_bins)

\* C1: for every num_bins >= 3 and every channel the bin list has exactly
\* num_bins half-open bins, contiguous and non-overlapping, spanning the
\* channel's nominal domain; a cell value of the nominal domain lies in
\* exactly one bin, whose index is in [0, num_bins), and
\* bin_dist_angle_matrix assigns that index to the cell.
C1_BinExhaustive ==
    bpc # "idle" =>
        /\ Len(cur_bins) = num_bins
        /\ \A k \in 1..Len(cur_bins) : Lower(cur_bins[k]) < Upper(cur_bins[k])
        /\ \A k \in 1..(Len(cur_bins) - 1) : Upper(cur_bins[k]) = Lower(cur_bins[k + 1])
        /\ Lower(cur_bins[1]) = domain_low(mat_i, num_bins)
        /\ Upper(Last(cur_bins)) = domain_high(mat_i, num_bins)
        /\ in_domain(mat_i, dist_angle_cell, num_bins) =>
              /\ Cardinality(matching_bins(cur_bins, dist_angle_cell)) = 1
              /\ bpc # "real" =>
                    /\ binned_cell \in 0..(num_bins - 1)
                    /\ binned_cell \in matching_bins(cur_bins, dist_angle_cell)

\* C1 witness: a distance beyond every bounded bin has been binned into the
\* unbounded last bin.
C1_Witness ==
    /\ bpc = "binned" /\ mat_i = 0
    /\ in_domain(mat_i, dist_angle_cell, num_bins)
    /\ dist_angle_cell > Lower(Last(cur_bins))
    /\ binned_cell = num_bins - 1

\* C2: discretize(reconstruct(discretize(M))) = discretize(M) for a cell
\* strictly inside a bin; and for every channel and every bin index i the
\* representative value get_bin_values(bins)[i] lies in bin i and is
\* classified back into bin i.
C2_RoundTrip ==
    /\ (bpc = "rebinned" /\ strictly_inside(cur_bins, dist_angle_cell))
          => rebinned_cell = binned_cell
    /\ bpc \in {"values", "rebinned"} =>
          \A i \in 0..(num_bins - 1) :
              /\ i \in matching_bins(cur_bins, At(bin_values, i))
              /\ bin_dist_angle_matrix(mat_i, At(bin_values, i), num_bins) = i

\* C2 witness: a distance strictly inside the irregular first bin [0, 4) went
\* through discretize, reconstruct, discretize and came back to class 0.
C2_Witness ==
    /\ bpc = "rebinned" /\ mat_i = 0
    /\ 0 < dist_angle_cell /\ dist_angle_cell < 4 * DistScale
    /\ binned_cell = 0 /\ rebinned_cell = 0

\* C5 (the claim as stated): a cell value that lies in no bin of its channel
\* gets no valid class index from bin_dist_angle_matrix.
C5_NoSilentClass ==
    (bpc = "binned" /\ matching_bins(cur_bins, dist_angle_cell) = {})
        => binned_cell \notin 0..(num_bins - 1)

\* Width of bin 1 of the current channel.
width_of_bin_1 == Upper(At(cur_bins, 1)) - Lower(At(cur_bins, 1))

\* C6 (the claim as stated): value[i] = bins[i].lower + width(bin 1)/2 for
\* i >= 1, and value[0] = value[1] - 2 * width(bin 1).
C6_Original ==
    bpc \in {"values", "rebinned"} =>
        /\ Len(bin_values) = num_bins
        /\ \A i \in 1..(num_bins - 1) :
              At(bin_values, i) = Lower(At(cur_bins, i)) + width_of_bin_1 \div 2
        /\ At(bin_values, 0) = At(bin_values, 1) - 2 * width_of_bin_1

\* C6 (amended): value[i] = bins[i].lower + width(bin 1)/2 for i >= 1, and
\* value[0] = value[1] - width(bin 1): the code's bin_width is half the
\* width of bin 1, so 2 * bin_width is one width of bin 1.
C6_RepresentativeValues ==
    bpc \in {"values", "rebinned"} =>
        /\ Len(bin_values) = num_bins
        /\ \A i \in 1..(num_bins - 1) :
              At(bin_values, i) = Lower(At(cur_bins, i)) + width_of_bin_1 \div 2
        /\ At(bin_values, 0) = At(bin_values, 1) - width_of_bin_1

\* C6 witness: the distance channel's values have been computed: 3.75 for
\* the first bin [0, 4), and lower + 0.25 for the unbounded last bin.
C6_Witness ==
    /\ bpc = "values" /\ mat_i = 0
    /\ At(bin_values, 0) = 4 * DistScale - DistScale \div 4
    /\ Last(bin_values) = Lower(Last(cur_bins)) + DistScale \div 4

\* ---- geometry claims
NumRes == Len(residues)
Sentinel == Num(mask_fill_value)
\* The cells of channel c (1 distance, 2 Cb-Cb dihedral, 3 Ca-Cb dihedral,
\* 4 planar) that hold the sentinel.
filled_cells(c) ==
    {<<i, j>> \in (1..NumRes) \X (1..NumRes) : output_matrix[c][i][j] = Sentinel}
\* The sequence mask in effect: all ones when none was given.
seq_mask(k) == IF mask = <<>> THEN 1 ELSE mask[k]
\* Residue k has a CB whose coordinates do not sum to 0.
has_cb(k) ==
    LET cb == get_atom_coord(residues[k], "CB") IN cb[1] + cb[2] + cb[3] # 0

\* C3: with residue k invalid in the mask, every cell of row k and of column
\* k of all four channels holds the sentinel fill value, whatever the
\* coordinates (degenerate geometry included).
C3_SentinelMasking ==
    (gpc = "stacked" /\ mask # <<>>) =>
        \A k \in 1..NumRes : mask[k] = 0 =>
            \A c \in 1..4, j \in 1..NumRes :
                /\ output_matrix[c][k][j] = Sentinel
                /\ output_matrix[c][j][k] = Sentinel

\* C3 witness: residue 2 is invalid and degenerate (its CB coincides with
\* its CA, a NaN planar angle before the fill), residue 1 is valid, and the
\* cells of residue 2 hold the sentinel.
C3_Witness ==
    /\ gpc = "stacked" /\ NumRes = 2 /\ mask = <<1, 0>>
    /\ residues[2].CA = residues[2].CB /\ residues[2].CB # NoAtom
    /\ planar_cell(Sub(residues[2].CA, residues[2].CB),
                   Sub(residues[1].CB, residues[2].CB)) = NaN
    /\ output_matrix[4][2][1] = Sentinel
    /\ output_matrix[1][1][2] = Sentinel
    /\ output_matrix[1][1][1] # Sentinel

\* C4 (the claim as stated): the four channels hold the sentinel in the
\* same cells.
C4_Original ==
    gpc = "stacked" =>
        /\ filled_cells(1) = filled_cells(2)
        /\ filled_cells(2) = filled_cells(3)
        /\ filled_cells(3) = filled_cells(4)

\* C4 (amended): the three angle channels are filled in the same cells,
\* those of a pair with a residue that is invalid in the sequence mask or
\* has no CB (CB coordinates summing to 0); the distance channel is filled
\* in the cells of a pair with a residue invalid in the sequence mask, a
\* subset of the former, equal to it exactly when every residue valid in
\* the mask has a CB.
C4_AngleChannelsMaskedAlike ==
    gpc = "stacked" =>
        /\ filled_cells(2) = filled_cells(3)
        /\ filled_cells(3) = filled_cells(4)
        /\ filled_cells(2) =
              {<<i, j>> \in (1..NumRes) \X (1..NumRes) :
                  \/ seq_mask(i) = 0 \/ ~has_cb(i)
                  \/ seq_mask(j) = 0 \/ ~has_cb(j)}
        /\ filled_cells(1) =
              {<<i, j>> \in (1..NumRes) \X (1..NumRes) :
                  seq_mask(i) = 0 \/ seq_mask(j) = 0}
        /\ filled_cells(1) \subseteq filled_cells(2)
        /\ (filled_cells(1) = filled_cells(2))
              <=> (\A k \in 1..NumRes : seq_mask(k) = 1 => has_cb(k))

\* C4 witness: both residues are valid in the mask, residue 1 has no CB and
\* residue 2 has one: the distance cell of the pair is computed, its angle
\* cells hold the sentinel.
C4_Witness ==
    /\ gpc = "stacked" /\ NumRes = 2 /\ mask = <<1, 1>>
    /\ residues[1].CB = NoAtom /\ has_cb(2)
    /\ output_matrix[1][1][2] # Sentinel
    /\ output_matrix[2][1][2] = Sentinel
    /\ output_matrix[2][2][2] # Sentinel

\* C9: generate_dist_matrix returns an N x N matrix with D[i,j] = D[j,i] for
\* all valid residues i, j and D[i,i] = 0 for every valid residue i, with a
\* 0/1 mask or none (D holds the norm by its square).
C9_DistSymmetric ==
    gpc = "dist" =>
        /\ DOMAIN dist_mat = 1..NumRes
        /\ \A i \in 1..NumRes : DOMAIN dist_mat[i] = 1..NumRes
        /\ \A i, j \in 1..NumRes :
              (seq_mask(i) = 1 /\ seq_mask(j) = 1) =>
                  /\ dist_mat[i][j] = dist_mat[j][i]
                  /\ dist_mat[i][i] = Norm(0)

\* C9 witness: two valid residues at different points, with a mask given:
\* a nonzero distance, the same both ways.
C9_Witness ==
    /\ gpc = "dist" /\ NumRes = 2 /\ mask = <<1, 1>>
    /\ dist_mat[1][2] # Norm(0)
    /\ dist_mat[1][2] = dist_mat[2][1]
    /\ dist_mat[1][1] = Norm(0)

ShapeError == Raised("ValueError", "shape")

C10_UnknownFillMethodRaises ==
    (fpc = "done" /\ fill_method \notin {"below", "above", "symmetric", "between"}) =>
        /\ raised = "ValueError"
        /\ matrix = matrix0

\* ---- class of a masked cell
\* The cell holds the default sentinel, -1, and has been binned.
sentinel_binned ==
    /\ bpc # "idle" /\ bpc # "real"
    /\ dist_angle_cell = sentinel_cell(mat_i, num_bins)

\* C11: bin_dist_angle_matrix maps a cell holding the sentinel -1 to class 0
\* on the distance and phi channels (no bin holds it and the zero of the
\* output is kept), and on the omega and theta channels to the ordinary bin
\* that holds -1 degree, of index floor((-1 + 180) / (360 / num_bins)), the
\* class of a valid cell whose angle is -1 degree.
C11_SentinelClass ==
    sentinel_binned =>
        /\ mat_i \in {0, 3} =>
              /\ matching_bins(cur_bins, dist_angle_cell) = {}
              /\ binned_cell = 0
        /\ mat_i \in {1, 2} =>
              /\ binned_cell = ((180 - 1) * num_bins) \div 360
              /\ matching_bins(cur_bins, dist_angle_cell) = {binned_cell}
              /\ in_domain(mat_i, dist_angle_cell, num_bins)

\* C11 witness: with 26 bins a sentinel cell of the omega channel has been
\* binned into class 12.
C11_Witness ==
    /\ bpc = "binned" /\ mat_i = 1 /\ num_bins = 26
    /\ dist_angle_cell = mask_fill_value * AngleScale(num_bins)
    /\ binned_cell = 12
====
